---- MODULE Spec2Model ----
(***************************************************************************)
(* A model of jetstream.py: ERAJetStreamData.calc_windspeed (level lookup, *)
(* default sensitivity, wind-speed magnitude, longitude re-centering) and  *)
(* the driving script (level listing, output directory, timestep loop).    *)
(*                                                                         *)
(* Numbers.  Sensitivities and wind speeds are held in tenths (3.5 is 35), *)
(* so that the two defaults 3.5 and 7.5 are integers.  The wind components *)
(* are drawn from pairs whose Euclidean norm is an integer, and Sqrt is    *)
(* the exact square root on those; floating-point rounding and NaN are not *)
(* modelled.  Python indices are 0-based and kept so (idx, levindex, i0);  *)
(* TLA+ sequences are 1-based, hence the "+ 1" at every subscript.         *)
(***************************************************************************)
EXTENDS Integers, Sequences, FiniteSets, TLC

VARIABLES
    data,       \* self.data: the netCDF4 dataset (never assigned after load)
    result,     \* self.lon, self.lat, self.windspeed of the ERAJetStreamData
    call,       \* the latest calc_windspeed call: its arguments and its local
                \* levindex when it ended
    err,        \* the exception that ended the latest call / the run
    args,       \* parse_args(): level, threshold, listlevels, outdir
    outdir,     \* what the path args.outdir is: "absent", "file" or "dir"
    files,      \* images saved by the run: figname -> image
    mymap,      \* the map made by create_map for the current timestep
    i,          \* index of the timestep loop (enumerate)
    pc          \* position of the script

vars == <<data, result, call, err, args, outdir, files, mymap, i, pc>>

---------------------------------------------------------------------------
(* Bounds of the model *)

MaxLevels == 2      \* longest level axis
MaxLon == 3         \* longest longitude axis given to calc_windspeed
MaxLonMain == 2     \* longest longitude axis given to the script
MaxTime == 2        \* longest time axis

(* Program constants *)

JetstreamLevel == 250       \* if level == 250
JetstreamSensitivity == 35  \* sensitivity = 3.5   (tenths)
OtherSensitivity == 75      \* sensitivity = 7.5   (tenths)
ShiftLon0 == 180            \* basemap.shiftgrid(180, ...)
Cyclic == 360               \* shiftgrid's default cyclic=360.0
HoursPerDay == 24           \* time axis units: hours since an epoch at 00:00

LevelValues == {250, 500, 1000}
LonValues == {0, 170, 180, 200, 340}
LonValuesMain == {0, 90, 180}
TimeValues == {0, 6, 24}
TimeOrder == <<0, 6, 24>>
LatAxis == <<60, 30>>

---------------------------------------------------------------------------
(* The dataset *)

\* (u, v) pairs with pairwise different integer norms 0, 5, 10, 13, 17, 3, 4
CellTable ==
    << <<0, 0>>, <<3, 4>>, <<-6, 8>>, <<5, -12>>, <<-8, -15>>, <<0, 3>>, <<-4, 0>> >>

\* the wind components at time t, level l, latitude row r, longitude column c
Cell(t, l, r, c) ==
    CellTable[((5 * t + 3 * l + 2 * r + c) % Len(CellTable)) + 1]

IsIncreasing(s) == \A k \in 1..(Len(s) - 1) : s[k] < s[k + 1]

IsInjective(s) == \A j, k \in 1..Len(s) : j # k => s[j] # s[k]

SeqsUpTo(S, n) == UNION {[1..m -> S] : m \in 0..n}

\* a coordinate axis of pressure levels: distinct values, in any order
LevelAxes == {s \in SeqsUpTo(LevelValues, MaxLevels) : IsInjective(s)}

\* ordered longitude axes in [0, 360), at least one column
LonAxes == {s \in SeqsUpTo(LonValues, MaxLon) : Len(s) > 0 /\ IsIncreasing(s)}

LonAxesMain ==
    {s \in SeqsUpTo(LonValuesMain, MaxLonMain) : Len(s) > 0 /\ IsIncreasing(s)}

\* ordered time axes, in hours; two timesteps may fall on one day
TimeAxes == {s \in SeqsUpTo(TimeValues, MaxTime) : IsIncreasing(s)}

\* 6-hourly time axes from the epoch on, as far as TimeOrder goes
TimeAxesCalc ==
    {SubSeq(TimeOrder, 1, m) : m \in 0..(IF MaxTime < Len(TimeOrder) THEN MaxTime
                                         ELSE Len(TimeOrder))}

Dataset(levels, lons, times) ==
    [level     |-> levels,
     longitude |-> lons,
     latitude  |-> LatAxis,
     time      |-> times,
     u |-> [t \in 1..Len(times) |-> [l \in 1..Len(levels) |->
              [r \in 1..Len(LatAxis) |-> [c \in 1..Len(lons) |->
                 Cell(t, l, r, c)[1]]]]],
     v |-> [t \in 1..Len(times) |-> [l \in 1..Len(levels) |->
              [r \in 1..Len(LatAxis) |-> [c \in 1..Len(lons) |->
                 Cell(t, l, r, c)[2]]]]]]

---------------------------------------------------------------------------
(* calc_windspeed *)

\* for levindex, millibars in enumerate(self.data['level']): ... else: raise
RECURSIVE ScanLevels(_, _, _)
ScanLevels(levels, level, k) ==
    IF k >= Len(levels)
    THEN [raised |-> TRUE, levindex |-> k - 1]
    ELSE IF levels[k + 1] = level
         THEN [raised |-> FALSE, levindex |-> k]
         ELSE ScanLevels(levels, level, k + 1)

\* the scan with ">=" for "==": the first level at least the target
RECURSIVE ScanLevelsAtLeast(_, _, _)
ScanLevelsAtLeast(levels, level, k) ==
    IF k >= Len(levels)
    THEN [raised |-> TRUE, levindex |-> k - 1]
    ELSE IF levels[k + 1] >= level
         THEN [raised |-> FALSE, levindex |-> k]
         ELSE ScanLevelsAtLeast(levels, level, k + 1)

FindLevelIndexAtLeast(levels, level) == ScanLevelsAtLeast(levels, level, 0)

\* the scan without its else clause: after an unsuccessful scan of a
\* non-empty axis levindex is the last index and the call goes on
FindLevelIndexNoElse(levels, level) ==
    LET found == ScanLevels(levels, level, 0) IN
    [raised |-> found.raised /\ Len(levels) = 0, levindex |-> found.levindex]

FindLevelIndex(levels, level) == ScanLevels(levels, level, 0)

\* def calc_windspeed(self, idx, level, sensitivity=0): an omitted argument
\* (the empty tuple) takes the default 0
SensitivityArg(a) == IF a = <<>> THEN 0 ELSE a[1]

\* the default of the --threshold help text, 3.6, in place of 3.5
SensitivityHelpText(level, sensitivity) ==
    IF sensitivity = 0
    THEN (IF level = JetstreamLevel THEN 36 ELSE OtherSensitivity)
    ELSE sensitivity

\* if not sensitivity: 3.5 at level 250, else 7.5
Sensitivity(level, sensitivity) ==
    IF sensitivity = 0
    THEN (IF level = JetstreamLevel THEN JetstreamSensitivity ELSE OtherSensitivity)
    ELSE sensitivity

Sqrt(n) == CHOOSE r \in 0..n : r * r = n

\* the magnitude of the first level whatever levindex is ("Only take the
\* first element of the windspeed")
MagnitudeFirstLevel(d, idx, levindex, s) ==
    [r \in 1..Len(d.latitude) |-> [c \in 1..Len(d.longitude) |->
        s * Sqrt(d.u[idx + 1][1][r][c] * d.u[idx + 1][1][r][c]
                 + d.v[idx + 1][1][r][c] * d.v[idx + 1][1][r][c])]]

\* sensitivity * np.sqrt(u[idx][levindex][:]**2 + v[idx][levindex][:]**2)
Magnitude(d, idx, levindex, s) ==
    [r \in 1..Len(d.latitude) |-> [c \in 1..Len(d.longitude) |->
        s * Sqrt(d.u[idx + 1][levindex + 1][r][c] * d.u[idx + 1][levindex + 1][r][c]
                 + d.v[idx + 1][levindex + 1][r][c] * d.v[idx + 1][levindex + 1][r][c])]]

Abs(x) == IF x < 0 THEN -x ELSE x

\* np.argmin(np.fabs(lonsin - lon0)): 0-based index of the first minimum
ArgMinDist(lonsin, lon0) ==
    (CHOOSE k \in 1..Len(lonsin) :
        /\ \A j \in 1..Len(lonsin) : Abs(lonsin[k] - lon0) <= Abs(lonsin[j] - lon0)
        /\ \A j \in 1..(k - 1) : Abs(lonsin[j] - lon0) > Abs(lonsin[k] - lon0)) - 1

\* 1-based source column of output column c, for the cut i0 and start_idx
ShiftSource(n, i0, start_idx, c) ==
    IF c <= n - i0 THEN i0 + c ELSE start_idx + (c - (n - i0))

\* shiftgrid taking its cyclic branch (start_idx = 1) on every axis
ShiftGridCyclic(lon0, datain, lonsin) ==
    LET n == Len(lonsin)
        i0 == ArgMinDist(lonsin, lon0)
        src(c) == ShiftSource(n, i0, 1, c)
    IN  IF lon0 < lonsin[1] \/ lon0 > lonsin[n]
        THEN [raised |-> TRUE, lons |-> <<>>, data |-> <<>>]
        ELSE [raised |-> FALSE,
              lons |-> [c \in 1..n |->
                          IF c <= n - i0 THEN lonsin[src(c)] - Cyclic
                          ELSE lonsin[src(c)]],
              data |-> [r \in 1..Len(datain) |-> [c \in 1..n |-> datain[r][src(c)]]]]

(***************************************************************************)
(* basemap.shiftgrid(lon0, datain, lonsin, start=False), cyclic = 360:     *)
(*   start_idx = 0 unless lonsin[-1] - lonsin[0] == cyclic, then 1         *)
(*   raise ValueError if lon0 < lonsin[0] or lon0 > lonsin[-1]             *)
(*   i0 = argmin |lonsin - lon0| ;  i0_shift = len(lonsin) - i0            *)
(*   lonsout[0:i0_shift] = lonsin[i0:] - cyclic                            *)
(*   lonsout[i0_shift:]  = lonsin[start_idx : i0 + start_idx]              *)
(*   dataout likewise, on the last axis, without the subtraction           *)
(***************************************************************************)
ShiftGrid(lon0, datain, lonsin) ==
    LET n == Len(lonsin)
        start_idx == IF lonsin[n] - lonsin[1] = Cyclic THEN 1 ELSE 0
        i0 == ArgMinDist(lonsin, lon0)
        i0_shift == n - i0
    IN  IF lon0 < lonsin[1] \/ lon0 > lonsin[n]
        THEN [raised |-> TRUE, lons |-> <<>>, data |-> <<>>]
        ELSE [raised |-> FALSE,
              lons |-> [c \in 1..n |->
                          IF c <= i0_shift
                          THEN lonsin[ShiftSource(n, i0, start_idx, c)] - Cyclic
                          ELSE lonsin[ShiftSource(n, i0, start_idx, c)]],
              data |-> [r \in 1..Len(datain) |-> [c \in 1..n |->
                          datain[r][ShiftSource(n, i0, start_idx, c)]]]]

NoResult == [lon |-> <<>>, lat |-> <<>>, windspeed |-> <<>>]

\* The outcome of calc_windspeed(idx, level, sensitivity) on dataset d:
\* the exception raised, if any, and the three attributes it assigns
CalcWindspeed(d, idx, level, sensitivity) ==
    LET found == FindLevelIndex(d.level, level) IN
    IF found.raised
    THEN [raised |-> "LevelNotFound", levindex |-> found.levindex,
          fields |-> NoResult]
    ELSE LET windspeed == Magnitude(d, idx, found.levindex,
                                    Sensitivity(level, sensitivity))
             shifted == ShiftGrid(ShiftLon0, windspeed, d.longitude)
         IN  IF shifted.raised
             THEN [raised |-> "ShiftGridError", levindex |-> found.levindex,
                   fields |-> NoResult]
             ELSE [raised |-> "none", levindex |-> found.levindex,
                   fields |-> [lon |-> shifted.lons,
                               lat |-> d.latitude,
                               windspeed |-> shifted.data]]

NoCall == [idx |-> -1, level |-> 0, sens |-> <<>>, levindex |-> -1]

NoArgs == [level |-> 0, threshold |-> 0, listlevels |-> FALSE]

NoMap == [title |-> <<>>, lon |-> <<>>, windspeed |-> <<>>]

---------------------------------------------------------------------------
(* Specification of calc_windspeed called on a loaded dataset *)

SensArgs == {<<>>, <<0>>, <<10>>}

CalcInit ==
    /\ data \in {Dataset(lv, lo, ti) :
                    lv \in LevelAxes, lo \in LonAxes, ti \in TimeAxesCalc}
    /\ result = NoResult
    /\ call = NoCall
    /\ err = "none"
    /\ args = NoArgs
    /\ outdir = "absent"
    /\ files = <<>>
    /\ mymap = NoMap
    /\ i = 0
    /\ pc = "api"

\* calc_windspeed re-centering the dataset's own longitude axis in place
CallInPlace(idx, level, sens) ==
    LET out == CalcWindspeed(data, idx, level, SensitivityArg(sens)) IN
    /\ pc = "api"
    /\ call' = [idx |-> idx, level |-> level, sens |-> sens,
                levindex |-> out.levindex]
    /\ err' = out.raised
    /\ result' = IF out.raised = "none" THEN out.fields ELSE result
    /\ data' = IF out.raised = "none"
               THEN [data EXCEPT !.longitude = out.fields.lon] ELSE data
    /\ UNCHANGED <<args, outdir, files, mymap, i, pc>>

\* JSdata.calc_windspeed(idx, level[, sensitivity]) with a valid timeIndex
Call(idx, level, sens) ==
    LET out == CalcWindspeed(data, idx, level, SensitivityArg(sens)) IN
    /\ pc = "api"
    /\ call' = [idx |-> idx, level |-> level, sens |-> sens,
                levindex |-> out.levindex]
    /\ err' = out.raised
    /\ result' = IF out.raised = "none" THEN out.fields ELSE result
    /\ UNCHANGED <<data, args, outdir, files, mymap, i, pc>>

CalcNext ==
    \E idx \in 0..(Len(data.time) - 1), level \in LevelValues, sens \in SensArgs :
        Call(idx, level, sens)

SpecCalc == CalcInit /\ [][CalcNext]_vars

---------------------------------------------------------------------------
(* The script: if __name__ == '__main__' *)

Thresholds == {0, 20}

\* netCDF4.num2date(t, units, calendar).strftime("%Y-%m-%d"): the day the
\* timestamp falls on, counted from the epoch of the hourly time axis
TimeStr(t) == t \div HoursPerDay

\* JetStreamData.create_map / JetStreamMap.render: the title and the plotted
\* attributes of the data object
CreateMap(level, timestr, res) ==
    [title |-> IF level = JetstreamLevel
               THEN <<"Jet Stream", timestr>>
               ELSE <<"Winds mb", level, timestr>>,
     lon |-> res.lon,
     windspeed |-> res.windspeed]

\* '%s/%s-%d.png' % (args.outdir, timestr, args.level)
FigName(timestr, level) == <<"outdir", timestr, level, "png">>

\* sys.exit status of a finished run
ExitCode ==
    CASE pc \in {"listed", "done"} -> 0
      [] pc = "exit1" -> 1
      [] OTHER -> -1

Init ==
    /\ data \in {Dataset(lv, lo, ti) :
                    lv \in LevelAxes, lo \in LonAxesMain, ti \in TimeAxes}
    /\ args \in [level : LevelValues, threshold : Thresholds, listlevels : BOOLEAN]
    /\ outdir \in {"absent", "file", "dir"}
    /\ result = NoResult
    /\ call = NoCall
    /\ err = "none"
    /\ files = <<>>
    /\ mymap = NoMap
    /\ i = 0
    /\ pc = "start"

\* if args.listlevels: print the levels; sys.exit(0)
ListLevels ==
    /\ pc = "start"
    /\ args.listlevels
    /\ pc' = "listed"
    /\ UNCHANGED <<data, result, call, err, args, outdir, files, mymap, i>>

\* if not os.path.exists(outdir): os.mkdir(outdir)
MakeOutdir ==
    /\ pc = "start"
    /\ ~args.listlevels
    /\ outdir = "absent"
    /\ outdir' = "dir"
    /\ pc' = "loop"
    /\ UNCHANGED <<data, result, call, err, args, files, mymap, i>>

\* the conflict reported, but the script going on into the loop
OutdirConflictNoExit ==
    /\ pc = "start"
    /\ ~args.listlevels
    /\ outdir = "file"
    /\ pc' = "loop"
    /\ UNCHANGED <<data, result, call, err, args, outdir, files, mymap, i>>

\* elif not os.path.isdir(outdir): print(...); sys.exit(1)
OutdirConflict ==
    /\ pc = "start"
    /\ ~args.listlevels
    /\ outdir = "file"
    /\ pc' = "exit1"
    /\ UNCHANGED <<data, result, call, err, args, outdir, files, mymap, i>>

\* the directory exists: neither branch is taken
UseOutdir ==
    /\ pc = "start"
    /\ ~args.listlevels
    /\ outdir = "dir"
    /\ pc' = "loop"
    /\ UNCHANGED <<data, result, call, err, args, outdir, files, mymap, i>>

\* JSdata.calc_windspeed(i, args.level): the threshold is not passed
CalcStep ==
    LET out == CalcWindspeed(data, i, args.level, SensitivityArg(<<>>)) IN
    /\ pc = "loop"
    /\ i < Len(data.time)
    /\ call' = [idx |-> i, level |-> args.level, sens |-> <<>>,
                levindex |-> out.levindex]
    /\ err' = out.raised
    /\ result' = IF out.raised = "none" THEN out.fields ELSE result
    /\ pc' = IF out.raised = "none" THEN "render" ELSE "error"
    /\ UNCHANGED <<data, args, outdir, files, mymap, i>>

\* mymap = JSdata.create_map(args.level, timestr, west, east, south, north)
RenderStep ==
    /\ pc = "render"
    /\ mymap' = CreateMap(args.level, TimeStr(data.time[i + 1]), result)
    /\ pc' = "save"
    /\ UNCHANGED <<data, result, call, err, args, outdir, files, i>>

\* mymap.fig.savefig(figname); print(figname); plt.close(); next timestep
SaveStep ==
    LET figname == FigName(TimeStr(data.time[i + 1]), args.level) IN
    /\ pc = "save"
    /\ files' = [n \in (DOMAIN files) \cup {figname} |->
                    IF n = figname THEN [timestep |-> i, image |-> mymap]
                    ELSE files[n]]
    /\ i' = i + 1
    /\ pc' = "loop"
    /\ UNCHANGED <<data, result, call, err, args, outdir, mymap>>

\* the time axis is exhausted: the script ends, status 0
Finish ==
    /\ pc = "loop"
    /\ i >= Len(data.time)
    /\ pc' = "done"
    /\ UNCHANGED <<data, result, call, err, args, outdir, files, mymap, i>>

Next ==
    \/ ListLevels
    \/ MakeOutdir
    \/ OutdirConflict
    \/ UseOutdir
    \/ CalcStep
    \/ RenderStep
    \/ SaveStep
    \/ Finish

Spec == Init /\ [][Next]_vars

---------------------------------------------------------------------------
(* Properties of calc_windspeed, checked under SpecCalc *)

Called == call # NoCall

Succeeded == Called /\ err = "none"

\* the scale factor the documentation gives for a call
ScaleOf(level, sens) ==
    IF sens = <<>> \/ sens = <<0>>
    THEN (IF level = 250 THEN 35 ELSE 75)
    ELSE sens[1]

\* scale * sqrt(u^2 + v^2) of the input cell (r, src) of the latest call
ScaledSpeed(scale, r, src) ==
    LET uu == data.u[call.idx + 1][call.levindex + 1][r][src]
        vv == data.v[call.idx + 1][call.levindex + 1][r][src]
    IN  scale * Sqrt(uu * uu + vv * vv)

ExpectedSpeed(r, src) == ScaledSpeed(ScaleOf(call.level, call.sens), r, src)

\* C1: after a successful calc_windspeed(timeIndex, level, sensitivity) the
\* windspeed grid has the shape of the input grid and every cell of it is
\* the scale factor times sqrt(u^2 + v^2) of the input cell in the same
\* latitude row and in the column with the same longitude modulo 360, at
\* the time index of the call and the level index the lookup found.
C1_ElementwiseReconstruction ==
    Succeeded =>
        /\ Len(result.windspeed) = Len(data.latitude)
        /\ \A r \in 1..Len(result.windspeed) :
              /\ Len(result.windspeed[r]) = Len(data.longitude)
              /\ \A c \in 1..Len(result.windspeed[r]) :
                    \E src \in 1..Len(data.longitude) :
                        /\ data.longitude[src] % 360 = result.lon[c] % 360
                        /\ result.windspeed[r][c] = ExpectedSpeed(r, src)

\* a call at the second timestep and the second level, with an explicit
\* sensitivity, whose three columns were cut and swapped
C1_Witness ==
    /\ Succeeded
    /\ call.idx = 1 /\ call.levindex = 1 /\ call.sens = <<10>>
    /\ Len(result.lon) = 3
    /\ result.lon[1] < 0 /\ result.lon[3] >= 0
    /\ result.windspeed[1][1] # result.windspeed[1][2]

\* C2: the level lookup ends with the one index whose level is the target
\* whenever the target is on the level axis, and raises the level-not-found
\* error whenever it is not (an empty axis included).
C2_LevelLookup ==
    Called =>
        IF \E k \in 1..Len(data.level) : data.level[k] = call.level
        THEN /\ err # "LevelNotFound"
             /\ call.levindex \in 0..(Len(data.level) - 1)
             /\ data.level[call.levindex + 1] = call.level
             /\ \A k \in 1..Len(data.level) :
                   data.level[k] = call.level => k = call.levindex + 1
        ELSE err = "LevelNotFound"

\* the target found at the second position of a two-level axis
C2_Witness ==
    /\ Called
    /\ Len(data.level) = 2
    /\ call.levindex = 1
    /\ data.level[2] = call.level
    /\ err # "LevelNotFound"

\* C3: after a successful calc_windspeed the re-centered longitude sequence
\* has the length of the source axis, is increasing, and has every value in
\* [-180, 180), for every ordered source axis in [0, 360).
C3_RecenteredRange ==
    Succeeded =>
        /\ Len(result.lon) = Len(data.longitude)
        /\ IsIncreasing(result.lon)
        /\ \A c \in 1..Len(result.lon) : -180 <= result.lon[c] /\ result.lon[c] < 180

C9_NoSideEffects ==
    [][pc = "api" => UNCHANGED <<data, result, args, outdir, files, mymap, i, pc>>]_vars

\* C9 amended: calc_windspeed leaves the dataset and all other program
\* state unchanged except the attributes lon, lat and windspeed of the data
\* object, which a successful call overwrites with a value that depends on
\* the dataset and the arguments only, and a failing call leaves alone.
C9_OnlyResultAssigned ==
    [][pc = "api" =>
        /\ UNCHANGED <<data, args, outdir, files, mymap, i, pc>>
        /\ err' = "none" =>
              result' = CalcWindspeed(data, call'.idx, call'.level,
                                      SensitivityArg(call'.sens)).fields
        /\ err' # "none" => result' = result]_vars

\* a failing call after a successful one: the earlier result is still there
C9_Witness ==
    /\ Called
    /\ err = "LevelNotFound"
    /\ result # NoResult

\* The shift back to [0, 360): the columns with a negative longitude move
\* behind the others and get 360 added
InverseShift(lons, grid) ==
    LET n == Len(lons)
        k == Cardinality({c \in 1..n : lons[c] < 0})
        from(c) == IF c <= n - k THEN k + c ELSE c - (n - k)
    IN  [lons |-> [c \in 1..n |-> IF c <= n - k THEN lons[from(c)]
                                  ELSE lons[from(c)] + 360],
         data |-> [r \in 1..Len(grid) |-> [c \in 1..n |-> grid[r][from(c)]]]]

\* C10: after a successful calc_windspeed every source column is found in
\* exactly one column of the re-centered grid, with its own longitude modulo
\* 360 and its own cells, and shifting the result back to [0, 360) gives the
\* source longitude axis and the scaled grid in the source's column order.
C10_RecenterBijection ==
    Succeeded =>
        /\ Len(result.lon) = Len(data.longitude)
        /\ \A src \in 1..Len(data.longitude) :
              Cardinality({c \in 1..Len(result.lon) :
                  /\ result.lon[c] % 360 = data.longitude[src]
                  /\ \A r \in 1..Len(result.windspeed) :
                        result.windspeed[r][c] = ExpectedSpeed(r, src)}) = 1
        /\ InverseShift(result.lon, result.windspeed) =
              [lons |-> data.longitude,
               data |-> [r \in 1..Len(data.latitude) |->
                           [src \in 1..Len(data.longitude) |-> ExpectedSpeed(r, src)]]]

\* a three-column axis cut after its first column
C10_Witness ==
    /\ Succeeded
    /\ Len(result.lon) = 3
    /\ result.lon[2] < 0 /\ result.lon[3] >= 0
    /\ data.longitude[1] = result.lon[3]

---------------------------------------------------------------------------
(* Properties of the script, checked under Spec *)

LevelAbsent == \A k \in 1..Len(data.level) : data.level[k] # args.level

Terminal == pc \in {"listed", "done", "exit1", "error"}

\* C5 as stated: every run with an absent level ends in the level-not-found
\* error, and no image is rendered or written in it.
C5_AbsentLevelAlwaysErrors ==
    (LevelAbsent /\ Terminal) =>
        /\ pc = "error" /\ err = "LevelNotFound"
        /\ files = <<>> /\ mymap = NoMap

\* C5 amended: in a run with an absent level no windspeed is computed and no
\* image is rendered or written at any point; the loop never gets past its
\* first timestep, where the level-not-found error ends the run, so such a
\* run completes normally only in level-listing mode or over an empty time
\* axis, and ends with status 1 only on the output-path conflict.
C5_AbsentLevelAborts ==
    LevelAbsent =>
        /\ files = <<>> /\ mymap = NoMap /\ result = NoResult
        /\ i = 0
        /\ pc \notin {"render", "save"}
        /\ pc = "error" => err = "LevelNotFound"
        /\ pc = "done" => Len(data.time) = 0
        /\ pc = "listed" => args.listlevels
        /\ pc = "exit1" => outdir = "file"

\* the error raised at the first of two timesteps, the other levels there
C5_Witness ==
    /\ LevelAbsent
    /\ pc = "error" /\ err = "LevelNotFound"
    /\ Len(data.time) = 2
    /\ Len(data.level) = 2

\* C6: in a run that is not listing levels, a missing outdir is created and
\* the loop entered; an outdir that is a directory is left as it is and the
\* loop entered; an outdir that is not a directory ends the run with status
\* 1, the last step of the run, before anything is computed, rendered or
\* saved; the loop only ever runs with outdir a directory.
C6_OutdirHandling ==
    /\ [](pc \in {"loop", "render", "save", "done", "error"} => outdir = "dir")
    /\ [](pc = "exit1" =>
            /\ ExitCode = 1
            /\ call = NoCall /\ result = NoResult /\ mymap = NoMap /\ files = <<>>)
    /\ [][(pc = "start" /\ ~args.listlevels) =>
            /\ outdir = "absent" => (outdir' = "dir" /\ pc' = "loop")
            /\ outdir = "dir" => (outdir' = "dir" /\ pc' = "loop")
            /\ outdir = "file" => (outdir' = "file" /\ pc' = "exit1")]_vars
    /\ [][pc' = "exit1" => outdir = "file"]_vars
    /\ [][pc # "exit1"]_vars

\* the conflict on a run that had two timesteps to plot at a level it has
C6_Witness ==
    /\ pc = "exit1"
    /\ outdir = "file"
    /\ Len(data.time) = 2
    /\ ~LevelAbsent

\* C7: a run that completes normally over N timesteps leaves N image files,
\* the file named after each timestep's date being the one that timestep
\* wrote.
C7_OneImagePerTimestep ==
    pc = "done" =>
        /\ Cardinality(DOMAIN files) = Len(data.time)
        /\ \A t \in 0..(Len(data.time) - 1) :
              /\ FigName(TimeStr(data.time[t + 1]), args.level) \in DOMAIN files
              /\ files[FigName(TimeStr(data.time[t + 1]), args.level)].timestep = t

\* C8: every windspeed grid computed in the loop is scaled by the threshold
\* of the command line when that is nonzero, and by the level's default
\* when it is 0.
C8_ThresholdScales ==
    pc \in {"render", "save"} =>
        \A r \in 1..Len(result.windspeed) : \A c \in 1..Len(result.windspeed[r]) :
            \E src \in 1..Len(data.longitude) :
                /\ data.longitude[src] % 360 = result.lon[c] % 360
                /\ result.windspeed[r][c] =
                      ScaledSpeed(ScaleOf(args.level, <<args.threshold>>), r, src)

====
